---- MODULE Spec2Model ----
(***************************************************************************)
(* FUMIC: UMI-based classification of variant calls as mutation or FFPE    *)
(* artefact.  The model follows src/fumic.py: vcf_extract drives, for one  *)
(* variant record, pos_checker (grouping of the reads into UMI molecules,  *)
(* pos_hits tallies, ffpe_finder classification), sup_count (aggregation)  *)
(* and the annotation of the record copy.  Further specifications take    *)
(* pos_hits, the annotation and a whole run over a variant file on their   *)
(* own, and the producer and consumer threads of src/fusac.py.             *)
(*                                                                         *)
(* Python values: a str is a sequence of one-character strings; a dict     *)
(* whose iteration order is used (umi_dict, pos_res) is a record           *)
(* [keys |-> sequence of keys in insertion order, val |-> function]; any   *)
(* other dict is a function on its keys, {} being the empty function <<>>. *)
(***************************************************************************)
EXTENDS Integers, Sequences, FiniteSets, TLC

VARIABLES pc, record, bam_lst, umi_dict, ffpe_data, pos_sup, n_cop,
          base_res, ref_var, ref_base, var_dict,
          pos_dict, vcf_file, vcf_idx, n_vcf,
          thr_que, res_que, m_pc, m_t, p_pc, c_pc, c_rec, c_cop,
          n_ext, put_log

vars == <<pc, record, bam_lst, umi_dict, ffpe_data, pos_sup, n_cop,
          base_res, ref_var, ref_base, var_dict,
          pos_dict, vcf_file, vcf_idx, n_vcf,
          thr_que, res_que, m_pc, m_t, p_pc, c_pc, c_rec, c_cop,
          n_ext, put_log>>

\* The state outside one pass of the record loop: the tally of a direct
\* call of pos_hits, the records of vcf_file, the number of them the loop
\* has taken and the records written to n_vcf.
fileVars == <<pos_dict, vcf_file, vcf_idx, n_vcf>>

\* The state of fusac's threads: the two queues, the position of main, of
\* the producer and of every consumer, the locals of the consumers, and
\* the calls of vcf_extract and of res_que.put made so far.
thrVars == <<thr_que, res_que, m_pc, m_t, p_pc, c_pc, c_rec, c_cop,
             n_ext, put_log>>

\* The locals of one pass of fumic's record loop.
recVars == <<pc, record, bam_lst, umi_dict, ffpe_data, pos_sup, n_cop,
             base_res, ref_var, ref_base, var_dict, pos_dict>>

\* No thread of fusac exists in a run of fumic.
NoThreads ==
  /\ thr_que = <<>>
  /\ res_que = <<>>
  /\ m_pc = "none"
  /\ m_t = 0
  /\ p_pc = "none"
  /\ c_pc = <<>>
  /\ c_rec = <<>>
  /\ c_cop = <<>>
  /\ n_ext = <<>>
  /\ put_log = <<>>

(***************************************************************************)
(* Bounds of the model.                                                    *)
(***************************************************************************)
\* Longest read list fetched for one record.
MaxReads == 3
\* Largest number of reads on one strand of a directly drawn paired group.
MaxStrand == 2

(***************************************************************************)
(* Python helpers.                                                         *)
(***************************************************************************)
\* bool(d) of a dict d held as a function
Truthy(d) == DOMAIN d # {}

\* d[k] = v on a dict held as a function
Put(d, k, v) == [x \in (DOMAIN d) \cup {k} |-> IF x = k THEN v ELSE d[x]]

\* d[k] = v on an insertion-ordered dict
OPut(d, k, v) ==
  [keys |-> IF k \in DOMAIN d.val THEN d.keys ELSE Append(d.keys, k),
   val  |-> Put(d.val, k, v)]

EmptyODict == [keys |-> <<>>, val |-> <<>>]

\* str.split(sep) for a one-character separator
RECURSIVE split(_, _)
split(s, sep) ==
  IF \A i \in 1..Len(s) : s[i] # sep
  THEN <<s>>
  ELSE LET i == CHOOSE i \in 1..Len(s) :
                  s[i] = sep /\ \A j \in 1..(i - 1) : s[j] # sep
       IN <<SubSeq(s, 1, i - 1)>> \o split(SubSeq(s, i + 1, Len(s)), sep)

\* list.index(x): the first index holding x, 0 standing for ValueError
index(lst, x) ==
  IF \E i \in 1..Len(lst) : lst[i] = x
  THEN CHOOSE i \in 1..Len(lst) : lst[i] = x /\ \A j \in 1..(i - 1) : lst[j] # x
  ELSE 0

Digit(n) == <<"0", "1", "2", "3", "4", "5", "6", "7", "8", "9">>[n + 1]

\* str(n) for a non-negative int
RECURSIVE str(_)
str(n) == IF n < 10 THEN <<Digit(n)>> ELSE str(n \div 10) \o <<Digit(n % 10)>>

(***************************************************************************)
(* pos_hits: the tally of the bases a list of reads shows at record_pos.   *)
(***************************************************************************)
TallyKeys == {"A", "T", "G", "C", "N", "-"}

\* read_bucket without the except branch of its own: a read that does not
\* cover record_pos falls into the else branch of the base test.
read_bucket_no_gap(read, record_pos) ==
  LET read_pos == read.reference_positions
      ind_pos  == index(read_pos, record_pos)
  IN IF ind_pos = 0 THEN "N"
     ELSE LET read_base == read.query_sequence[ind_pos]
          IN IF read_base \in {"A", "T", "G", "C"} THEN read_base ELSE "N"

\* The counter one read increments (the try/except of the loop body).
read_bucket(read, record_pos) ==
  LET read_pos == read.reference_positions
      ind_pos  == index(read_pos, record_pos)
  IN IF ind_pos = 0 THEN "-"
     ELSE LET read_base == read.query_sequence[ind_pos]
          IN IF read_base \in {"A", "T", "G", "C"} THEN read_base ELSE "N"

RECURSIVE pos_hits(_, _)
pos_hits(inp_lst, record_pos) ==
  IF inp_lst = <<>>
  THEN [b \in TallyKeys |-> 0]
  ELSE LET n    == Len(inp_lst)
           rest == pos_hits(SubSeq(inp_lst, 1, n - 1), record_pos)
           b    == read_bucket(inp_lst[n], record_pos)
       IN [rest EXCEPT ![b] = @ + 1]

(***************************************************************************)
(* ffpe_finder: the classification of one paired molecule.                 *)
(***************************************************************************)
\* An order of iteration over a set (for var_call in ref_var); the sets
\* vcf_extract passes hold at most one element.
RECURSIVE IterOrder(_)
IterOrder(S) ==
  IF S = {} THEN <<>>
  ELSE LET x == CHOOSE x \in S : TRUE IN <<x>> \o IterOrder(S \ {x})

\* ffpe_iter reading the tallies with a default of 0 (dict.get(key, 0)), so
\* that a symbol the tallies do not hold never raises.
ffpe_iter_default(acc, f_hits, r_hits, var_call, r_base) ==
  LET hit == ("Forward Molecule" :> f_hits) @@ ("Reverse Molecule" :> r_hits)
      get(d, k) == IF k \in DOMAIN d THEN d[k] ELSE 0
  IN IF get(f_hits, var_call) > 0 /\ get(r_hits, var_call) > 0
     THEN [acc EXCEPT !.mut_dict = Put(@, var_call, hit)]
     ELSE IF get(f_hits, var_call) > 0 /\ get(r_hits, var_call) = 0
     THEN [acc EXCEPT !.ffpe_dict = Put(@, var_call, hit)]
     ELSE IF get(r_hits, var_call) > 0 /\ get(f_hits, var_call) = 0
     THEN [acc EXCEPT !.ffpe_dict = Put(@, var_call, hit)]
     ELSE IF get(f_hits, r_base) > 0 /\ get(r_hits, r_base) > 0
     THEN [acc EXCEPT !.ref_dict = Put(@, r_base, hit)]
     ELSE [acc EXCEPT !.mut_dict = Put(@, var_call, hit)]

\* ffpe_iter with the reference test taken out of the elif chain.
ffpe_iter_unchained(acc, f_hits, r_hits, var_call, r_base) ==
  LET hit == ("Forward Molecule" :> f_hits) @@ ("Reverse Molecule" :> r_hits)
      a1  == IF f_hits[var_call] > 0 /\ r_hits[var_call] > 0
             THEN [acc EXCEPT !.mut_dict = Put(@, var_call, hit)]
             ELSE IF f_hits[var_call] > 0 /\ r_hits[var_call] = 0
             THEN [acc EXCEPT !.ffpe_dict = Put(@, var_call, hit)]
             ELSE IF r_hits[var_call] > 0 /\ f_hits[var_call] = 0
             THEN [acc EXCEPT !.ffpe_dict = Put(@, var_call, hit)]
             ELSE acc
  IN IF f_hits[r_base] > 0 /\ r_hits[r_base] > 0
     THEN [a1 EXCEPT !.ref_dict = Put(@, r_base, hit)]
     ELSE [a1 EXCEPT !.mut_dict = Put(@, var_call, hit)]

\* One pass of the inner loop body; acc.raised records the KeyError that
\* ends the loops.  The IF/ELSE IF chain is the if/elif chain of the code.
ffpe_iter(acc, f_hits, r_hits, var_call, r_base) ==
  LET hit == ("Forward Molecule" :> f_hits) @@ ("Reverse Molecule" :> r_hits)
  IN IF acc.raised THEN acc
     ELSE IF var_call \notin DOMAIN f_hits \/ var_call \notin DOMAIN r_hits
     THEN [acc EXCEPT !.raised = TRUE]
     ELSE IF f_hits[var_call] > 0 /\ r_hits[var_call] > 0
     THEN [acc EXCEPT !.mut_dict = Put(@, var_call, hit)]
     ELSE IF f_hits[var_call] > 0 /\ r_hits[var_call] = 0
     THEN [acc EXCEPT !.ffpe_dict = Put(@, var_call, hit)]
     ELSE IF r_hits[var_call] > 0 /\ f_hits[var_call] = 0
     THEN [acc EXCEPT !.ffpe_dict = Put(@, var_call, hit)]
     ELSE IF r_base \notin DOMAIN f_hits
     THEN [acc EXCEPT !.raised = TRUE]
     ELSE IF f_hits[r_base] > 0 /\ r_base \notin DOMAIN r_hits
     THEN [acc EXCEPT !.raised = TRUE]
     ELSE IF f_hits[r_base] > 0 /\ r_hits[r_base] > 0
     THEN [acc EXCEPT !.ref_dict = Put(@, r_base, hit)]
     ELSE [acc EXCEPT !.mut_dict = Put(@, var_call, hit)]

\* The nested loops over the pairs (var_call, r_base), pairs 1..n done.
RECURSIVE ffpe_loop(_, _, _, _, _)
ffpe_loop(f_hits, r_hits, vs, rs, n) ==
  IF n = 0
  THEN [ffpe_dict |-> <<>>, mut_dict |-> <<>>, ref_dict |-> <<>>,
        out_dict |-> <<>>, raised |-> FALSE]
  ELSE ffpe_iter(ffpe_loop(f_hits, r_hits, vs, rs, n - 1), f_hits, r_hits,
                 vs[((n - 1) \div Len(rs)) + 1], rs[((n - 1) % Len(rs)) + 1])

ffpe_finder(b_res, r_var, r_bas, umi_key) ==
  LET known == /\ umi_key \in DOMAIN b_res["Forward Hits"]
               /\ umi_key \in DOMAIN b_res["Reverse Hits"]
      vs    == IterOrder(r_var)
      rs    == IterOrder(r_bas)
      acc   == IF known
               THEN ffpe_loop(b_res["Forward Hits"][umi_key],
                              b_res["Reverse Hits"][umi_key],
                              vs, rs, Len(vs) * Len(rs))
               ELSE ffpe_loop(<<>>, <<>>, vs, rs, 0)
  IN ("FFPE Hits" :> acc.ffpe_dict) @@ ("Mutation Hits" :> acc.mut_dict) @@
     ("Reference Hits" :> acc.ref_dict) @@ ("Other Mutation Hits" :> acc.out_dict)

(***************************************************************************)
(* pos_checker: grouping of the reads by molecule key, then one pass over  *)
(* the keys.                                                               *)
(***************************************************************************)
\* read1-reverse with the two barcodes kept in the order of the identifier.
umi_of_unswapped(read) ==
  LET qn_spl == split(read.query_name, "_")
      umi    == qn_spl[Len(qn_spl)]
      brc    == split(umi, "+")
  IN IF Len(brc) < 2
     THEN [raised |-> TRUE, strand |-> "", umi_id |-> <<>>]
     ELSE LET umi_l == brc[1]
              umi_r == brc[2]
          IN IF read.is_read1
             THEN IF read.is_reverse
                  THEN [raised |-> FALSE, strand |-> "Reverse_Molecule",
                        umi_id |-> umi_l \o <<"_">> \o umi_r]
                  ELSE [raised |-> FALSE, strand |-> "Forward_Molecule",
                        umi_id |-> umi_l \o <<"_">> \o umi_r]
             ELSE IF read.is_reverse
                  THEN [raised |-> FALSE, strand |-> "Forward_Molecule",
                        umi_id |-> umi_l \o <<"_">> \o umi_r]
                  ELSE [raised |-> FALSE, strand |-> "Reverse_Molecule",
                        umi_id |-> umi_r \o <<"_">> \o umi_l]

\* The strand and the molecule key of one read; raised is the IndexError of
\* brc[1] on an identifier whose UMI field holds no "+".
umi_of(read) ==
  LET qn_spl == split(read.query_name, "_")
      umi    == qn_spl[Len(qn_spl)]
      brc    == split(umi, "+")
  IN IF Len(brc) < 2
     THEN [raised |-> TRUE, strand |-> "", umi_id |-> <<>>]
     ELSE LET umi_l == brc[1]
              umi_r == brc[2]
          IN IF read.is_read1
             THEN IF read.is_reverse
                  THEN [raised |-> FALSE, strand |-> "Reverse_Molecule",
                        umi_id |-> umi_r \o <<"_">> \o umi_l]
                  ELSE [raised |-> FALSE, strand |-> "Forward_Molecule",
                        umi_id |-> umi_l \o <<"_">> \o umi_r]
             ELSE IF read.is_reverse
                  THEN [raised |-> FALSE, strand |-> "Forward_Molecule",
                        umi_id |-> umi_l \o <<"_">> \o umi_r]
                  ELSE [raised |-> FALSE, strand |-> "Reverse_Molecule",
                        umi_id |-> umi_r \o <<"_">> \o umi_l]

\* umi_dict[umi_id][strand].append(read), the key created on a KeyError.
umi_add(u_d, umi_id, strand, read) ==
  LET old == IF umi_id \in DOMAIN u_d.val
             THEN u_d.val[umi_id]
             ELSE [Forward_Molecule |-> <<>>, Reverse_Molecule |-> <<>>]
      new == IF strand = "Forward_Molecule"
             THEN [old EXCEPT !.Forward_Molecule = Append(@, read)]
             ELSE [old EXCEPT !.Reverse_Molecule = Append(@, read)]
  IN OPut(u_d, umi_id, new)

\* The first loop over the first n reads.
RECURSIVE group_reads(_, _)
group_reads(lst, n) ==
  IF n = 0
  THEN [raised |-> FALSE, umi_dict |-> EmptyODict]
  ELSE LET done == group_reads(lst, n - 1)
           u    == umi_of(lst[n])
       IN IF done.raised THEN done
          ELSE IF u.raised THEN [done EXCEPT !.raised = TRUE]
          ELSE [done EXCEPT !.umi_dict = umi_add(@, u.umi_id, u.strand, lst[n])]

\* {k: v for k, v in umi_dict.items() if v}
drop_empty(u_d) ==
  LET kept == SelectSeq(u_d.keys, LAMBDA k : DOMAIN u_d.val[k] # {})
  IN [keys |-> kept,
      val  |-> [k \in {kept[i] : i \in 1..Len(kept)} |-> u_d.val[k]]]

\* The locals of the second loop as they stand before its first pass.
LoopStart ==
  [f_hits |-> <<>>, r_hits |-> <<>>, f_s_hits |-> <<>>, r_s_hits |-> <<>>,
   var_dict |-> <<>>, base_res |-> <<>>, counter |-> 0, pos_res |-> EmptyODict]

\* One pass of the second loop, for umi_key.  The branch "elif f_lst" stands
\* behind "if f_lst" and is never taken.
key_pass(st, u_d, umi_key, record_pos, r_var, r_bas) ==
  LET f_lst == u_d.val[umi_key].Forward_Molecule
      r_lst == u_d.val[umi_key].Reverse_Molecule
      fh    == Put(st.f_hits, umi_key, pos_hits(f_lst, record_pos))
      rh    == Put(st.r_hits, umi_key, pos_hits(r_lst, record_pos))
      br    == ("Forward Reads" :> f_lst) @@ ("Reverse Reads" :> r_lst) @@
               ("Forward Hits" :> fh) @@ ("Reverse Hits" :> rh)
      s1    == IF f_lst # <<>>
               THEN IF r_lst # <<>>
                    THEN [st EXCEPT !.counter = @ + 1,
                                    !.f_hits = fh, !.r_hits = rh,
                                    !.base_res = br,
                                    !.var_dict = ffpe_finder(br, r_var, r_bas, umi_key)]
                    ELSE st
               ELSE IF r_lst # <<>>
                    THEN [st EXCEPT !.r_s_hits = pos_hits(r_lst, record_pos)]
                    ELSE st
      entry == ("Forward Single" :> s1.f_s_hits) @@
               ("Reverse Single" :> s1.r_s_hits) @@
               ("Variant Hits" :> s1.var_dict)
  IN [s1 EXCEPT !.pos_res = OPut(@, umi_key, entry)]

\* The second loop over the first n keys.
RECURSIVE key_loop(_, _, _, _, _)
key_loop(u_d, n, record_pos, r_var, r_bas) ==
  IF n = 0 THEN LoopStart
  ELSE key_pass(key_loop(u_d, n - 1, record_pos, r_var, r_bas),
                u_d, u_d.keys[n], record_pos, r_var, r_bas)

\* raised is an exception that leaves pos_checker (the IndexError of a
\* malformed identifier; the handler catches KeyError only).
\* umi_dict, a local of the function, is returned beside pos_res.
pos_checker(lst, record_pos, r_var, r_bas) ==
  LET g   == group_reads(lst, Len(lst))
      u_d == drop_empty(g.umi_dict)
  IN IF g.raised
     THEN [raised |-> TRUE, umi_dict |-> EmptyODict, pos_res |-> EmptyODict]
     ELSE [raised   |-> FALSE,
           umi_dict |-> u_d,
           pos_res  |-> key_loop(u_d, Len(u_d.keys), record_pos,
                                 r_var, r_bas).pos_res]

(***************************************************************************)
(* sup_count: the support counts of one position.                          *)
(***************************************************************************)
Categories == {"FFPE Hits", "Mutation Hits", "Reference Hits", "Other Mutation Hits"}

\* hits[a]["Forward Molecule"][a] + hits[a]["Reverse Molecule"][a], the two
\* "+=" of one category
both_strands(hits, a) ==
  hits[a]["Forward Molecule"][a] + hits[a]["Reverse Molecule"][a]

\* The counters before the loop over the keys.
ZeroSup == [fs |-> 0, rs |-> 0, p |-> 0, raised |-> FALSE]

\* alt_key with "=" where the code has "+=".
alt_key_assign(c, e, alt) ==
  LET fs == e["Forward Single"]
      rs == e["Reverse Single"]
      vh == e["Variant Hits"]
      hit == {cat \in Categories : Truthy(vh) /\ Truthy(vh[cat]) /\ alt \in DOMAIN vh[cat]}
  IN [c EXCEPT
        !.fs = IF Truthy(fs) /\ alt \in DOMAIN fs THEN fs[alt] ELSE @,
        !.rs = IF Truthy(rs) /\ alt \in DOMAIN rs THEN rs[alt] ELSE @,
        !.p  = IF hit # {}
               THEN LET cat == CHOOSE x \in hit : TRUE
                    IN vh[cat][alt]["Reverse Molecule"][alt]
               ELSE @]

\* One pass of the loop over the keys for an alternate allele: three
\* independent ifs, and under a non-empty Variant Hits one if per category.
alt_key(c, e, alt) ==
  LET fs == e["Forward Single"]
      rs == e["Reverse Single"]
      vh == e["Variant Hits"]
      cat_add(cat) == IF Truthy(vh[cat]) /\ alt \in DOMAIN vh[cat]
                      THEN both_strands(vh[cat], alt) ELSE 0
  IN [c EXCEPT
        !.fs = @ + (IF Truthy(fs) /\ alt \in DOMAIN fs THEN fs[alt] ELSE 0),
        !.rs = @ + (IF Truthy(rs) /\ alt \in DOMAIN rs THEN rs[alt] ELSE 0),
        !.p  = @ + (IF Truthy(vh)
                    THEN cat_add("FFPE Hits") + cat_add("Mutation Hits") +
                         cat_add("Reference Hits") + cat_add("Other Mutation Hits")
                    ELSE 0)]

\* ref_key counting the forward molecule only.
ref_key_forward_only(c, e, ref) ==
  LET fs == e["Forward Single"]
      rs == e["Reverse Single"]
      vh == e["Variant Hits"]
      cat_add(cat) == IF Truthy(vh[cat]) /\ ref \in DOMAIN vh[cat]
                      THEN vh[cat][ref]["Forward Molecule"][ref] ELSE 0
  IN IF Truthy(fs)
     THEN [c EXCEPT !.fs = @ + (IF ref \in DOMAIN fs THEN fs[ref] ELSE 0)]
     ELSE IF Truthy(rs)
     THEN [c EXCEPT !.rs = @ + (IF ref \in DOMAIN rs THEN rs[ref] ELSE 0)]
     ELSE IF Truthy(vh)
     THEN [c EXCEPT !.p = @ + cat_add("FFPE Hits") + cat_add("Reference Hits")]
     ELSE c

\* One pass of the loop over the keys for a reference base: an if/elif
\* chain over Forward Single, Reverse Single and Variant Hits.  Under
\* Mutation Hits the code indexes ["Mutation Hits"]["Forward Molecule"],
\* a key that dict does not hold: a KeyError (raised).
ref_key(c, e, ref) ==
  LET fs == e["Forward Single"]
      rs == e["Reverse Single"]
      vh == e["Variant Hits"]
      cat_add(cat) == IF Truthy(vh[cat]) /\ ref \in DOMAIN vh[cat]
                      THEN both_strands(vh[cat], ref) ELSE 0
      mut == vh["Mutation Hits"]
      mut_raises == /\ Truthy(mut) /\ ref \in DOMAIN mut
                    /\ \/ /\ Truthy(mut[ref]["Forward Molecule"])
                          /\ "Forward Molecule" \notin DOMAIN mut
                       \/ /\ Truthy(mut[ref]["Reverse Molecule"])
                          /\ "Reverse Molecule" \notin DOMAIN mut
      mut_add == IF Truthy(mut) /\ ref \in DOMAIN mut
                 THEN (IF Truthy(mut[ref]["Forward Molecule"])
                       THEN mut["Forward Molecule"][ref] ELSE 0) +
                      (IF Truthy(mut[ref]["Reverse Molecule"])
                       THEN mut["Reverse Molecule"][ref] ELSE 0)
                 ELSE 0
  IN IF c.raised THEN c
     ELSE IF Truthy(fs)
     THEN [c EXCEPT !.fs = @ + (IF ref \in DOMAIN fs THEN fs[ref] ELSE 0)]
     ELSE IF Truthy(rs)
     THEN [c EXCEPT !.rs = @ + (IF ref \in DOMAIN rs THEN rs[ref] ELSE 0)]
     ELSE IF Truthy(vh)
     THEN IF mut_raises
          THEN [c EXCEPT !.p = @ + cat_add("FFPE Hits"), !.raised = TRUE]
          ELSE [c EXCEPT !.p = @ + cat_add("FFPE Hits") + mut_add +
                                (IF Truthy(vh["Reference Hits"])
                                 THEN cat_add("Reference Hits")
                                 ELSE cat_add("Other Mutation Hits"))]
     ELSE c

\* for umi_key in input_dict, the first n keys done
RECURSIVE alt_keys(_, _, _)
alt_keys(input_dict, n, alt) ==
  IF n = 0 THEN ZeroSup
  ELSE alt_key(alt_keys(input_dict, n - 1, alt),
               input_dict.val[input_dict.keys[n]], alt)

RECURSIVE ref_keys(_, _, _)
ref_keys(input_dict, n, ref) ==
  IF n = 0 THEN ZeroSup
  ELSE ref_key(ref_keys(input_dict, n - 1, ref),
               input_dict.val[input_dict.keys[n]], ref)

\* The three dicts of one side, c[a] being the counters of allele a.
sup_of(c) ==
  ("Forward Single" :> [a \in DOMAIN c |-> c[a].fs]) @@
  ("Reverse Single" :> [a \in DOMAIN c |-> c[a].rs]) @@
  ("Paired" :> [a \in DOMAIN c |-> c[a].p])

\* raised is the KeyError that leaves sup_count.
sup_count(input_dict, n_ref, n_alt) ==
  LET n  == Len(input_dict.keys)
      ac == [a \in n_alt |-> alt_keys(input_dict, n, a)]
      rc == [a \in n_ref |-> ref_keys(input_dict, n, a)]
  IN [raised  |-> \E a \in n_ref : rc[a].raised,
      pos_sup |-> ("Variant" :> sup_of(ac)) @@ ("Reference" :> sup_of(rc))]

(***************************************************************************)
(* vcf_extract: one variant record at a time.                              *)
(***************************************************************************)
\* set(''.join(record.ref)) and set(''.join(record.alts))
n_ref_of(rec) == {rec.ref[i] : i \in 1..Len(rec.ref)}
n_alt_of(rec) ==
  UNION {{rec.alts[j][i] : i \in 1..Len(rec.alts[j])} : j \in 1..Len(rec.alts)}

\* len(n_ref) > 1 or len(n_alt) > 1
skipped_shape(rec) ==
  Cardinality(n_ref_of(rec)) > 1 \/ Cardinality(n_alt_of(rec)) > 1

\* The loop over ffpe_data testing "Mutation Hits".
ffpe_flag_mutation(data) ==
  \E i \in 1..Len(data.keys) :
     LET vh == data.val[data.keys[i]]["Variant Hits"]
     IN Truthy(vh) /\ Truthy(vh["Mutation Hits"])

\* The loop over ffpe_data that adds the FFPE filter.
ffpe_flag(data) ==
  \E i \in 1..Len(data.keys) :
     LET vh == data.val[data.keys[i]]["Variant Hits"]
     IN Truthy(vh) /\ Truthy(vh["FFPE Hits"])

\* str(Paired) + ":" + str(Forward Single) + ":" + str(Reverse Single)
triple(sup, a) ==
  str(sup["Paired"][a]) \o <<":">> \o str(sup["Forward Single"][a]) \o
  <<":">> \o str(sup["Reverse Single"][a])

\* var_sd + ref_sd, each left by the last pass of its loop
umi_field(sup, n_ref, n_alt) ==
  LET vs == IterOrder(n_alt)
      rs == IterOrder(n_ref)
  IN triple(sup["Variant"], vs[Len(vs)]) \o triple(sup["Reference"], rs[Len(rs)])

(***************************************************************************)
(* The inputs: variant records and the reads overlapping their position.   *)
(***************************************************************************)
Records ==
  {[pos |-> 2, ref |-> <<"T">>, alts |-> << <<"C">> >>],
   [pos |-> 2, ref |-> <<"T", "A">>, alts |-> << <<"T">> >>]}

\* Identifiers name_UMI1+UMI2 over the barcodes a and b.
QueryNames == {<<"q", "_", "a", "+", "b">>, <<"q", "_", "b", "+", "a">>}

\* Reads of one base aligned to the 0-based position of the records.
ReadTypes ==
  [is_read1 : BOOLEAN, is_reverse : BOOLEAN, query_name : QueryNames,
   query_sequence : {<<"T">>, <<"C">>, <<"G">>},
   reference_positions : {<<1>>}]

ReadLists == UNION {[1..n -> ReadTypes] : n \in 0..MaxReads}

NoCopy == [UMI |-> <<>>, filter |-> {}]

\* vcf_file holds one record, which the loop has taken.
Init ==
  /\ pc = "start"
  /\ record \in Records
  /\ bam_lst = <<>>
  /\ umi_dict = EmptyODict
  /\ ffpe_data = EmptyODict
  /\ pos_sup = <<>>
  /\ n_cop = NoCopy
  /\ base_res = <<>>
  /\ ref_var = {}
  /\ ref_base = {}
  /\ var_dict = <<>>
  /\ pos_dict = <<>>
  /\ vcf_file = <<record>>
  /\ vcf_idx = 1
  /\ n_vcf = <<>>
  /\ NoThreads

\* continue: the record is left without being written
VcfSkip ==
  /\ pc = "start"
  /\ skipped_shape(record)
  /\ pc' = "skipped"
  /\ UNCHANGED <<record, bam_lst, umi_dict, ffpe_data, pos_sup, n_cop,
                 base_res, ref_var, ref_base, var_dict>>
  /\ UNCHANGED fileVars
  /\ UNCHANGED thrVars

\* for read in bam_file.fetch(...): bam_lst.append(read)
VcfFetch ==
  /\ pc = "start"
  /\ ~skipped_shape(record)
  /\ bam_lst' \in ReadLists
  /\ pc' = "fetched"
  /\ UNCHANGED <<record, umi_dict, ffpe_data, pos_sup, n_cop,
                 base_res, ref_var, ref_base, var_dict>>
  /\ UNCHANGED fileVars
  /\ UNCHANGED thrVars

\* ffpe_data = pos_checker(bam_lst, record_pos, n_alt, n_ref)
VcfPosChecker ==
  /\ pc = "fetched"
  /\ \E res \in {pos_checker(bam_lst, record.pos - 1, n_alt_of(record),
                             n_ref_of(record))} :
        /\ ffpe_data' = res.pos_res
        /\ umi_dict' = res.umi_dict
        /\ pc' = IF res.raised THEN "crashed" ELSE "checked"
  /\ UNCHANGED <<record, bam_lst, pos_sup, n_cop,
                 base_res, ref_var, ref_base, var_dict>>
  /\ UNCHANGED fileVars
  /\ UNCHANGED thrVars

\* pos_sup = sup_count(ffpe_data, n_ref, n_alt)
VcfSupCount ==
  /\ pc = "checked"
  /\ \E res \in {sup_count(ffpe_data, n_ref_of(record), n_alt_of(record))} :
        /\ pos_sup' = IF res.raised THEN <<>> ELSE res.pos_sup
        /\ pc' = IF res.raised THEN "crashed" ELSE "counted"
  /\ UNCHANGED <<record, bam_lst, umi_dict, ffpe_data, n_cop,
                 base_res, ref_var, ref_base, var_dict>>
  /\ UNCHANGED fileVars
  /\ UNCHANGED thrVars

\* The UMI field, the FFPE filter and n_vcf.write(n_cop); idx is the place
\* in vcf_file of the record n_cop is the copy of.
VcfAnnotate ==
  /\ pc = "counted"
  /\ n_cop' = [UMI    |-> umi_field(pos_sup, n_ref_of(record), n_alt_of(record)),
               filter |-> IF ffpe_flag(ffpe_data) THEN {"FFPE"} ELSE {}]
  /\ n_vcf' = Append(n_vcf, [idx |-> vcf_idx, UMI |-> n_cop'.UMI,
                             filter |-> n_cop'.filter])
  /\ pc' = "written"
  /\ UNCHANGED <<record, bam_lst, umi_dict, ffpe_data, pos_sup,
                 base_res, ref_var, ref_base, var_dict,
                 pos_dict, vcf_file, vcf_idx>>
  /\ UNCHANGED thrVars

\* The loop is left when vcf_file has no further record.
RunEnd ==
  /\ pc \in {"loop", "written", "skipped"}
  /\ vcf_idx = Len(vcf_file)
  /\ pc' = "done"
  /\ UNCHANGED <<record, bam_lst, umi_dict, ffpe_data, pos_sup, n_cop,
                 base_res, ref_var, ref_base, var_dict, fileVars>>
  /\ UNCHANGED thrVars

Next ==
  \/ VcfSkip
  \/ VcfFetch
  \/ VcfPosChecker
  \/ VcfSupCount
  \/ VcfAnnotate
  \/ RunEnd

Spec == Init /\ [][Next]_vars

(***************************************************************************)
(* ffpe_finder on its own: every paired molecule of up to MaxStrand reads  *)
(* a strand, every reference base and alternate allele of the tally keys.  *)
(***************************************************************************)
Tallies ==
  {t \in [TallyKeys -> 0..MaxStrand] :
     LET n == t["A"] + t["T"] + t["G"] + t["C"] + t["N"] + t["-"]
     IN n >= 1 /\ n <= MaxStrand}

TheKey == <<"a", "_", "b">>

InitClassify ==
  /\ pc = "paired"
  /\ \E f \in Tallies, r \in Tallies :
       base_res = ("Forward Hits" :> (TheKey :> f)) @@
                  ("Reverse Hits" :> (TheKey :> r))
  /\ \E a \in TallyKeys : ref_var = {a}
  /\ \E a \in TallyKeys : ref_base = {a}
  /\ var_dict = <<>>
  /\ record = [pos |-> 2, ref |-> <<>>, alts |-> <<>>]
  /\ bam_lst = <<>>
  /\ umi_dict = EmptyODict
  /\ ffpe_data = EmptyODict
  /\ pos_sup = <<>>
  /\ n_cop = NoCopy
  /\ pos_dict = <<>>
  /\ vcf_file = <<>>
  /\ vcf_idx = 0
  /\ n_vcf = <<>>
  /\ NoThreads

\* var_dict = ffpe_finder(base_res, ref_var, ref_base, umi_key)
Classify ==
  /\ pc = "paired"
  /\ var_dict' = ffpe_finder(base_res, ref_var, ref_base, TheKey)
  /\ pc' = "classified"
  /\ UNCHANGED <<record, bam_lst, umi_dict, ffpe_data, pos_sup, n_cop,
                 base_res, ref_var, ref_base>>
  /\ UNCHANGED fileVars
  /\ UNCHANGED thrVars

NextClassify == Classify

SpecClassify == InitClassify /\ [][NextClassify]_vars

(***************************************************************************)
(* pos_hits on its own: every list of up to MaxReads reads of two bases,   *)
(* aligned before, on, after or around the position of the record.         *)
(***************************************************************************)
\* The sequences show every tally base, N, lower case and a symbol outside
\* the alphabet of the tally.
HitSequences == {<<"A", "T">>, <<"G", "C">>, <<"N", "a">>, <<"t", "=">>}

\* get_reference_positions(full_length=True): one entry per base of the
\* read; <<1, 3>> is a read with position 2 deleted.
HitPositions == {<<1, 2>>, <<2, 3>>, <<1, 3>>}

HitReadTypes ==
  [is_read1 : {TRUE}, is_reverse : {FALSE},
   query_name : {<<"q", "_", "a", "+", "b">>},
   query_sequence : HitSequences, reference_positions : HitPositions]

HitLists == UNION {[1..n -> HitReadTypes] : n \in 0..MaxReads}

InitHits ==
  /\ pc = "hits"
  /\ record = [pos |-> 3, ref |-> <<"T">>, alts |-> << <<"C">> >>]
  /\ bam_lst \in HitLists
  /\ pos_dict = <<>>
  /\ umi_dict = EmptyODict
  /\ ffpe_data = EmptyODict
  /\ pos_sup = <<>>
  /\ n_cop = NoCopy
  /\ base_res = <<>>
  /\ ref_var = {}
  /\ ref_base = {}
  /\ var_dict = <<>>
  /\ vcf_file = <<>>
  /\ vcf_idx = 0
  /\ n_vcf = <<>>
  /\ NoThreads

\* pos_dict = pos_hits(inp_lst, record_pos)
Hits ==
  /\ pc = "hits"
  /\ pos_dict' = pos_hits(bam_lst, record.pos - 1)
  /\ pc' = "tallied"
  /\ UNCHANGED <<record, bam_lst, umi_dict, ffpe_data, pos_sup, n_cop,
                 base_res, ref_var, ref_base, var_dict,
                 vcf_file, vcf_idx, n_vcf>>
  /\ UNCHANGED thrVars

NextHits == Hits

SpecHits == InitHits /\ [][NextHits]_vars

(***************************************************************************)
(* A whole run of vcf_extract: the loop over the records of vcf_file, each *)
(* record with the reads bam_file.fetch returns for it, and the records    *)
(* written to n_vcf.  An exception that leaves vcf_extract ends the run:   *)
(* main() has no handler.                                                  *)
(***************************************************************************)
\* Longest vcf_file.
MaxRecords == 2

\* Beside Records: a reference of one repeated base, an alternate of one
\* repeated base, two alternates of the same base, a deletion whose
\* alternate is the base of the reference.
RunRecords ==
  Records \cup
  {[pos |-> 2, ref |-> <<"T", "T">>, alts |-> << <<"C">> >>],
   [pos |-> 2, ref |-> <<"T">>, alts |-> << <<"C", "C">> >>],
   [pos |-> 2, ref |-> <<"T">>, alts |-> << <<"C">>, <<"C">> >>],
   [pos |-> 2, ref |-> <<"T", "T">>, alts |-> << <<"T">> >>]}

RunFiles == UNION {[1..n -> RunRecords] : n \in 0..MaxRecords}

\* A read of one base at the position of the records
RunRead(is_read1, is_reverse, query_name, base) ==
  [is_read1 |-> is_read1, is_reverse |-> is_reverse, query_name |-> query_name,
   query_sequence |-> <<base>>, reference_positions |-> <<1>>]

\* An identifier whose UMI field holds no "+"
NoPlus == <<"q", "_", "a", "b">>

\* The read lists of a run: no read, a reverse singleton, a pair showing
\* the reference on both strands, a pair showing the alternate on one
\* strand, a read with a malformed identifier alone and among a pair.
RunReadLists ==
  {<<>>,
   <<RunRead(TRUE, TRUE, <<"q", "_", "b", "+", "a">>, "C")>>,
   <<RunRead(TRUE, FALSE, <<"q", "_", "a", "+", "b">>, "T"),
     RunRead(TRUE, TRUE, <<"q", "_", "b", "+", "a">>, "T")>>,
   <<RunRead(TRUE, FALSE, <<"q", "_", "a", "+", "b">>, "C"),
     RunRead(TRUE, TRUE, <<"q", "_", "b", "+", "a">>, "T")>>,
   <<RunRead(TRUE, FALSE, NoPlus, "T")>>,
   <<RunRead(TRUE, FALSE, <<"q", "_", "a", "+", "b">>, "C"),
     RunRead(FALSE, FALSE, NoPlus, "T"),
     RunRead(TRUE, TRUE, <<"q", "_", "b", "+", "a">>, "T")>>}

InitRun ==
  /\ pc = "loop"
  /\ vcf_file \in RunFiles
  /\ vcf_idx = 0
  /\ n_vcf = <<>>
  /\ record = [pos |-> 0, ref |-> <<>>, alts |-> <<>>]
  /\ bam_lst = <<>>
  /\ umi_dict = EmptyODict
  /\ ffpe_data = EmptyODict
  /\ pos_sup = <<>>
  /\ n_cop = NoCopy
  /\ base_res = <<>>
  /\ ref_var = {}
  /\ ref_base = {}
  /\ var_dict = <<>>
  /\ pos_dict = <<>>
  /\ NoThreads

\* for record in vcf_file.fetch(): the next record, the locals of the loop
\* body set anew
RunTake ==
  /\ pc \in {"loop", "written", "skipped"}
  /\ vcf_idx < Len(vcf_file)
  /\ vcf_idx' = vcf_idx + 1
  /\ record' = vcf_file[vcf_idx + 1]
  /\ pc' = "start"
  /\ bam_lst' = <<>>
  /\ umi_dict' = EmptyODict
  /\ ffpe_data' = EmptyODict
  /\ pos_sup' = <<>>
  /\ n_cop' = NoCopy
  /\ UNCHANGED <<base_res, ref_var, ref_base, var_dict, pos_dict, vcf_file, n_vcf>>
  /\ UNCHANGED thrVars

\* for read in bam_file.fetch(...): bam_lst.append(read)
RunFetch ==
  /\ pc = "start"
  /\ ~skipped_shape(record)
  /\ bam_lst' \in RunReadLists
  /\ pc' = "fetched"
  /\ UNCHANGED <<record, umi_dict, ffpe_data, pos_sup, n_cop,
                 base_res, ref_var, ref_base, var_dict, fileVars>>
  /\ UNCHANGED thrVars

NextRun ==
  \/ RunTake
  \/ RunEnd
  \/ VcfSkip
  \/ RunFetch
  \/ VcfPosChecker
  \/ VcfSupCount
  \/ VcfAnnotate

SpecRun == InitRun /\ [][NextRun]_vars

(***************************************************************************)
(* The annotation on its own: the record T>C behind sup_count, with every  *)
(* combination of one- and two-digit support counts.                       *)
(***************************************************************************)
SupCounts == {0, 1, 11}

\* The dict sup_count returns for one reference base and one alternate
SupOf(ap, af, ar, rp, rf, rr) ==
  ("Variant" :> (("Forward Single" :> ("C" :> af)) @@
                 ("Reverse Single" :> ("C" :> ar)) @@
                 ("Paired" :> ("C" :> ap)))) @@
  ("Reference" :> (("Forward Single" :> ("T" :> rf)) @@
                   ("Reverse Single" :> ("T" :> rr)) @@
                   ("Paired" :> ("T" :> rp))))

AnnotSups ==
  {SupOf(ap, af, ar, rp, rf, rr) :
     ap \in SupCounts, af \in SupCounts, ar \in SupCounts,
     rp \in SupCounts, rf \in SupCounts, rr \in SupCounts}

InitAnnot ==
  /\ pc = "counted"
  /\ record = [pos |-> 2, ref |-> <<"T">>, alts |-> << <<"C">> >>]
  /\ pos_sup \in AnnotSups
  /\ bam_lst = <<>>
  /\ umi_dict = EmptyODict
  /\ ffpe_data = EmptyODict
  /\ n_cop = NoCopy
  /\ base_res = <<>>
  /\ ref_var = {}
  /\ ref_base = {}
  /\ var_dict = <<>>
  /\ pos_dict = <<>>
  /\ vcf_file = <<record>>
  /\ vcf_idx = 1
  /\ n_vcf = <<>>
  /\ NoThreads

NextAnnot ==
  \/ VcfAnnotate
  \/ RunEnd

SpecAnnot == InitAnnot /\ [][NextAnnot]_vars

(***************************************************************************)
(* One pass of the record loop for records whose reference base or         *)
(* alternate allele is a symbol the tallies of pos_hits do not hold.       *)
(***************************************************************************)
\* A spanning deletion as alternate, an ambiguity code as reference, a
\* lower-case reference with a spanning deletion.
MissRecords ==
  {[pos |-> 2, ref |-> <<"T">>, alts |-> << <<"*">> >>],
   [pos |-> 2, ref |-> <<"R">>, alts |-> << <<"C">> >>],
   [pos |-> 2, ref |-> <<"t">>, alts |-> << <<"*">> >>]}

\* First reads of one base, forward or reverse, on the barcodes a and b.
MissReadTypes ==
  [is_read1 : {TRUE}, is_reverse : BOOLEAN, query_name : QueryNames,
   query_sequence : {<<"T">>, <<"C">>}, reference_positions : {<<1>>}]

MissReadLists == UNION {[1..n -> MissReadTypes] : n \in 0..MaxReads}

InitMiss ==
  /\ pc = "start"
  /\ record \in MissRecords
  /\ bam_lst = <<>>
  /\ umi_dict = EmptyODict
  /\ ffpe_data = EmptyODict
  /\ pos_sup = <<>>
  /\ n_cop = NoCopy
  /\ base_res = <<>>
  /\ ref_var = {}
  /\ ref_base = {}
  /\ var_dict = <<>>
  /\ pos_dict = <<>>
  /\ vcf_file = <<record>>
  /\ vcf_idx = 1
  /\ n_vcf = <<>>
  /\ NoThreads

\* for read in bam_file.fetch(...): bam_lst.append(read)
MissFetch ==
  /\ pc = "start"
  /\ ~skipped_shape(record)
  /\ bam_lst' \in MissReadLists
  /\ pc' = "fetched"
  /\ UNCHANGED <<record, umi_dict, ffpe_data, pos_sup, n_cop,
                 base_res, ref_var, ref_base, var_dict, fileVars>>
  /\ UNCHANGED thrVars

NextMiss ==
  \/ MissFetch
  \/ VcfPosChecker
  \/ VcfSupCount
  \/ VcfAnnotate
  \/ RunEnd

SpecMiss == InitMiss /\ [][NextMiss]_vars

(***************************************************************************)
(* fusac.py: main starts one ProducerThread and the ConsumerThreads, joins *)
(* them and writes res_que to n_vcf.  A step of a thread is one access to  *)
(* a shared object; deque.append, deque.popleft, Queue.put and Queue.get   *)
(* are atomic.  A thread that raises an exception terminates ("failed").   *)
(***************************************************************************)
\* Largest --threads.
MaxThreads == 2
\* Largest --queueSize.
MaxQueueSize == 1

\* An item of deque([0] * queueSize)
Zero == [int |-> 0]

\* Record i of the input, of a supported shape or not
FusacRecord(i, supported) ==
  IF supported
  THEN [pos |-> i, ref |-> <<"T">>, alts |-> << <<"C">> >>]
  ELSE [pos |-> i, ref |-> <<"T", "A">>, alts |-> << <<"T">> >>]

FusacFiles ==
  UNION {{[i \in 1..n |-> FusacRecord(i, sh[i])] : sh \in [1..n -> BOOLEAN]} :
         n \in 0..MaxRecords}

\* build_function.vcf_extract(record, ...): None for a record of an
\* unsupported shape, the annotated copy otherwise; an item that is no
\* record raises.
build_vcf_extract(item) ==
  IF item = Zero
  THEN [raised |-> TRUE, none |-> FALSE, n_cop |-> [idx |-> 0]]
  ELSE IF skipped_shape(item)
  THEN [raised |-> FALSE, none |-> TRUE, n_cop |-> [idx |-> 0]]
  ELSE [raised |-> FALSE, none |-> FALSE, n_cop |-> [idx |-> item.pos]]

Consumers == DOMAIN c_pc

Terminated(c) == c_pc[c] \in {"end", "failed"}

InitFusac ==
  /\ vcf_file \in FusacFiles
  /\ vcf_idx = 0
  /\ n_vcf = <<>>
  /\ \E qs \in 0..MaxQueueSize : thr_que = [i \in 1..qs |-> Zero]
  /\ res_que = <<>>
  /\ m_pc = "start_p"
  /\ m_t = 0
  /\ p_pc = "new"
  /\ \E n \in 1..MaxThreads :
       /\ c_pc = [c \in 1..n |-> "new"]
       /\ c_rec = [c \in 1..n |-> Zero]
       /\ c_cop = [c \in 1..n |-> [idx |-> 0]]
  /\ n_ext = [i \in 1..Len(vcf_file) |-> 0]
  /\ put_log = <<>>
  /\ pc = "fusac"
  /\ record = [pos |-> 0, ref |-> <<>>, alts |-> <<>>]
  /\ bam_lst = <<>>
  /\ umi_dict = EmptyODict
  /\ ffpe_data = EmptyODict
  /\ pos_sup = <<>>
  /\ n_cop = NoCopy
  /\ base_res = <<>>
  /\ ref_var = {}
  /\ ref_base = {}
  /\ var_dict = <<>>
  /\ pos_dict = <<>>

\* p_que.start()
MainStartProducer ==
  /\ m_pc = "start_p"
  /\ p_pc' = "run"
  /\ m_pc' = "start_c"
  /\ m_t' = 0
  /\ UNCHANGED <<recVars, vcf_file, vcf_idx, n_vcf, thr_que, res_que,
                 c_pc, c_rec, c_cop, n_ext, put_log>>

\* for t in threads: t.start()
MainStartConsumer ==
  /\ m_pc = "start_c"
  /\ c_pc' = [c_pc EXCEPT ![m_t + 1] = "test"]
  /\ m_t' = m_t + 1
  /\ m_pc' = IF m_t + 1 = Len(c_pc) THEN "join_p" ELSE "start_c"
  /\ UNCHANGED <<recVars, vcf_file, vcf_idx, n_vcf, thr_que, res_que,
                 p_pc, c_rec, c_cop, n_ext, put_log>>

\* p_que.join()
MainJoinProducer ==
  /\ m_pc = "join_p"
  /\ p_pc = "end"
  /\ m_pc' = "join_c"
  /\ m_t' = 0
  /\ UNCHANGED <<recVars, vcf_file, vcf_idx, n_vcf, thr_que, res_que,
                 p_pc, c_pc, c_rec, c_cop, n_ext, put_log>>

\* MainJoinConsumer going on without waiting for the thread.
MainJoinConsumer_no_wait ==
  /\ m_pc = "join_c"
  /\ m_t' = m_t + 1
  /\ m_pc' = IF m_t + 1 = Len(c_pc) THEN "write" ELSE "join_c"
  /\ UNCHANGED <<recVars, vcf_file, vcf_idx, n_vcf, thr_que, res_que,
                 p_pc, c_pc, c_rec, c_cop, n_ext, put_log>>

\* for t in threads: t.join(); join returns when the thread has ended,
\* by the end of run or by an exception
MainJoinConsumer ==
  /\ m_pc = "join_c"
  /\ Terminated(m_t + 1)
  /\ m_t' = m_t + 1
  /\ m_pc' = IF m_t + 1 = Len(c_pc) THEN "write" ELSE "join_c"
  /\ UNCHANGED <<recVars, vcf_file, vcf_idx, n_vcf, thr_que, res_que,
                 p_pc, c_pc, c_rec, c_cop, n_ext, put_log>>

\* while not res_que.empty(): n_vcf.write(res_que.get())
MainWrite ==
  /\ m_pc = "write"
  /\ res_que # <<>>
  /\ n_vcf' = Append(n_vcf, Head(res_que))
  /\ res_que' = Tail(res_que)
  /\ UNCHANGED <<recVars, vcf_file, vcf_idx, thr_que, m_pc, m_t,
                 p_pc, c_pc, c_rec, c_cop, n_ext, put_log>>

\* The write loop is left when res_que is empty.
MainEnd ==
  /\ m_pc = "write"
  /\ res_que = <<>>
  /\ m_pc' = "done"
  /\ UNCHANGED <<recVars, vcf_file, vcf_idx, n_vcf, thr_que, res_que, m_t,
                 p_pc, c_pc, c_rec, c_cop, n_ext, put_log>>

\* ProducerThread.run, one pass: self.thr_que.append(record)
ProducerAppend ==
  /\ p_pc = "run"
  /\ vcf_idx < Len(vcf_file)
  /\ thr_que' = Append(thr_que, vcf_file[vcf_idx + 1])
  /\ vcf_idx' = vcf_idx + 1
  /\ UNCHANGED <<recVars, vcf_file, n_vcf, res_que, m_pc, m_t,
                 p_pc, c_pc, c_rec, c_cop, n_ext, put_log>>

\* ProducerThread.run returns when vcf_file has no further record.
ProducerEnd ==
  /\ p_pc = "run"
  /\ vcf_idx = Len(vcf_file)
  /\ p_pc' = "end"
  /\ UNCHANGED <<recVars, vcf_file, vcf_idx, n_vcf, thr_que, res_que,
                 m_pc, m_t, c_pc, c_rec, c_cop, n_ext, put_log>>

\* ConsumerThread.run: while self.thr_que
ConsumerTest(c) ==
  /\ c_pc[c] = "test"
  /\ c_pc' = [c_pc EXCEPT ![c] = IF thr_que # <<>> THEN "pop" ELSE "end"]
  /\ UNCHANGED <<recVars, vcf_file, vcf_idx, n_vcf, thr_que, res_que,
                 m_pc, m_t, p_pc, c_rec, c_cop, n_ext, put_log>>

\* record = self.thr_que.popleft(); IndexError on an empty deque
ConsumerPop(c) ==
  /\ c_pc[c] = "pop"
  /\ IF thr_que = <<>>
     THEN /\ c_pc' = [c_pc EXCEPT ![c] = "failed"]
          /\ UNCHANGED <<thr_que, c_rec>>
     ELSE /\ c_rec' = [c_rec EXCEPT ![c] = Head(thr_que)]
          /\ thr_que' = Tail(thr_que)
          /\ c_pc' = [c_pc EXCEPT ![c] = "extract"]
  /\ UNCHANGED <<recVars, vcf_file, vcf_idx, n_vcf, res_que,
                 m_pc, m_t, p_pc, c_cop, n_ext, put_log>>

\* n_cop = build_function.vcf_extract(record, ...); if n_cop is not None
ConsumerExtract(c) ==
  /\ c_pc[c] = "extract"
  /\ \E res \in {build_vcf_extract(c_rec[c])} :
        /\ c_pc' = [c_pc EXCEPT ![c] = IF res.raised THEN "failed"
                                       ELSE IF res.none THEN "test" ELSE "put"]
        /\ c_cop' = [c_cop EXCEPT ![c] = res.n_cop]
        /\ n_ext' = IF c_rec[c] = Zero THEN n_ext
                    ELSE [n_ext EXCEPT ![c_rec[c].pos] = @ + 1]
  /\ UNCHANGED <<recVars, vcf_file, vcf_idx, n_vcf, thr_que, res_que,
                 m_pc, m_t, p_pc, c_rec, put_log>>

\* self.res_que.put(n_cop)
ConsumerPut(c) ==
  /\ c_pc[c] = "put"
  /\ res_que' = Append(res_que, c_cop[c])
  /\ put_log' = Append(put_log, c_cop[c])
  /\ c_pc' = [c_pc EXCEPT ![c] = "test"]
  /\ UNCHANGED <<recVars, vcf_file, vcf_idx, n_vcf, thr_que,
                 m_pc, m_t, p_pc, c_rec, c_cop, n_ext>>

NextFusac ==
  \/ MainStartProducer
  \/ MainStartConsumer
  \/ MainJoinProducer
  \/ MainJoinConsumer
  \/ MainWrite
  \/ MainEnd
  \/ ProducerAppend
  \/ ProducerEnd
  \/ \E c \in Consumers : ConsumerTest(c)
  \/ \E c \in Consumers : ConsumerPop(c)
  \/ \E c \in Consumers : ConsumerExtract(c)
  \/ \E c \in Consumers : ConsumerPut(c)

SpecFusac == InitFusac /\ [][NextFusac]_vars

(***************************************************************************)
(* Properties.                                                             *)
(***************************************************************************)
TheRef == CHOOSE a \in n_ref_of(record) : TRUE
TheAlt == CHOOSE a \in n_alt_of(record) : TRUE

\* The tally of n reads that all show base b
OnlyBase(b, n) == [k \in TallyKeys |-> IF k = b THEN n ELSE 0]

KeySet(d) == {d.keys[i] : i \in 1..Len(d.keys)}
FwdReads(k) == umi_dict.val[k].Forward_Molecule
RevReads(k) == umi_dict.val[k].Reverse_Molecule
IsPaired(k) == FwdReads(k) # <<>> /\ RevReads(k) # <<>>
FwdTally(k) == pos_hits(FwdReads(k), record.pos - 1)
RevTally(k) == pos_hits(RevReads(k), record.pos - 1)

\* The categories of a classification that hold an entry
Reported(vh) == {cat \in Categories : vh[cat] # <<>>}

\* The position holds one molecule, paired, with the given strand tallies
OnlyPairedGroup(f, r) ==
  /\ Len(umi_dict.keys) = 1
  /\ IsPaired(umi_dict.keys[1])
  /\ FwdTally(umi_dict.keys[1]) = f
  /\ RevTally(umi_dict.keys[1]) = r

\* C1: a position whose only molecule is paired, the forward strand showing
\* the alternate allele once and the reverse strand the reference base once,
\* is classified FFPE Hit and counted Paired[alt] = 1 and Paired[ref] = 1.
C1_FfpeScenario ==
  (pc = "counted" /\ OnlyPairedGroup(OnlyBase(TheAlt, 1), OnlyBase(TheRef, 1)))
  => /\ ffpe_data.val[umi_dict.keys[1]]["Variant Hits"]["FFPE Hits"] # <<>>
     /\ pos_sup["Variant"]["Paired"][TheAlt] = 1
     /\ pos_sup["Reference"]["Paired"][TheRef] = 1

\* C2: a paired molecule in which neither strand shows the alternate allele
\* and the strands do not both show the reference base is reported under
\* Other Mutation Hits and under no other category.
C2_OtherHit ==
  LET f   == base_res["Forward Hits"][TheKey]
      r   == base_res["Reverse Hits"][TheKey]
      alt == CHOOSE a \in ref_var : TRUE
      ref == CHOOSE a \in ref_base : TRUE
  IN (/\ pc = "classified"
      /\ f[alt] = 0 /\ r[alt] = 0
      /\ ~(f[ref] > 0 /\ r[ref] > 0))
     => Reported(var_dict) = {"Other Mutation Hits"}

\* C3: for every key with forward reads only, pos_checker records the tally
\* of those reads as the key's Forward Single entry; and when such a key is
\* the only one of the position, sup_count gives each queried allele its
\* tally count as Forward Single and 0 in every other counter.
C3_ForwardSingle ==
  pc = "counted" =>
    /\ \A k \in KeySet(umi_dict) :
         (FwdReads(k) # <<>> /\ RevReads(k) = <<>>)
         => ffpe_data.val[k]["Forward Single"] = FwdTally(k)
    /\ (Len(umi_dict.keys) = 1 /\ RevReads(umi_dict.keys[1]) = <<>>)
       => /\ pos_sup["Variant"]["Forward Single"][TheAlt] =
               FwdTally(umi_dict.keys[1])[TheAlt]
          /\ pos_sup["Reference"]["Forward Single"][TheRef] =
               FwdTally(umi_dict.keys[1])[TheRef]
          /\ pos_sup["Variant"]["Reverse Single"][TheAlt] = 0
          /\ pos_sup["Reference"]["Reverse Single"][TheRef] = 0
          /\ pos_sup["Variant"]["Paired"][TheAlt] = 0
          /\ pos_sup["Reference"]["Paired"][TheRef] = 0

\* C4: the entry pos_checker returns for a singleton key has an empty
\* Variant Hits, whatever keys were handled before it.
C4_SingletonUnclassified ==
  pc \in {"checked", "counted", "written"} =>
    \A k \in KeySet(umi_dict) :
      ~IsPaired(k) => ffpe_data.val[k]["Variant Hits"] = <<>>

\* C5: for a paired molecule and a single reference base and alternate
\* allele of the tally keys, exactly one of the four category maps that
\* ffpe_finder returns is non-empty.
C5_ExactlyOneCategory ==
  pc = "classified" => Cardinality(Reported(var_dict)) = 1

C5_Witness ==
  /\ pc = "classified"
  /\ var_dict["Reference Hits"] # <<>>
  /\ base_res["Forward Hits"][TheKey]["G"] = 1
  /\ ref_var # ref_base

\* sup_count(pos_checker(lst, ...)) as vcf_extract chains them
Counted(lst) ==
  sup_count(pos_checker(lst, record.pos - 1, n_alt_of(record),
                        n_ref_of(record)).pos_res,
            n_ref_of(record), n_alt_of(record)).pos_sup

\* lst in the order p
Reordered(lst, p) == [i \in 1..Len(lst) |-> lst[p[i]]]

\* C6: the support counts of a position are the same for every order of
\* the read list.
C6_ReadOrderIndependent ==
  pc = "counted" =>
    \A p \in Permutations(1..Len(bam_lst)) :
      Counted(Reordered(bam_lst, p)) = pos_sup

\* C7: sup_count returns the same counts for every iteration order of the
\* keys of its input mapping, and with no key to add from every counter of
\* every queried allele is zero.
C7_KeyOrderIndependent ==
  pc = "checked" =>
    /\ \A res \in {sup_count(ffpe_data, n_ref_of(record), n_alt_of(record))} :
       \A p \in Permutations(1..Len(ffpe_data.keys)) :
         sup_count([ffpe_data EXCEPT !.keys = Reordered(ffpe_data.keys, p)],
                   n_ref_of(record), n_alt_of(record)) = res
    /\ ffpe_data.keys = <<>> =>
         \A sup \in {sup_count(ffpe_data, n_ref_of(record), n_alt_of(record)).pos_sup} :
            \A c \in {"Paired", "Forward Single", "Reverse Single"} :
              /\ DOMAIN sup["Variant"][c] = n_alt_of(record)
              /\ DOMAIN sup["Reference"][c] = n_ref_of(record)
              /\ \A a \in n_alt_of(record) : sup["Variant"][c][a] = 0
              /\ \A a \in n_ref_of(record) : sup["Reference"][c][a] = 0

C7_Witness ==
  /\ pc = "checked"
  /\ Len(ffpe_data.keys) = 2
  /\ ffpe_data.val[ffpe_data.keys[1]] # ffpe_data.val[ffpe_data.keys[2]]
  /\ LET sup == sup_count(ffpe_data, n_ref_of(record), n_alt_of(record)).pos_sup
     IN sup["Variant"]["Paired"][TheAlt] > 0 /\ sup["Variant"]["Reverse Single"][TheAlt] > 0

Barcodes == {<<"a">>, <<"b">>}
Named(a, b) == <<"q", "_">> \o a \o <<"+">> \o b
InList(lst, x) == \E i \in 1..Len(lst) : lst[i] = x

\* C8: a read1-forward or read2-reverse read carrying a+b is in the
\* Forward_Molecule list of key a_b, and a read1-reverse or read2-forward
\* read carrying b+a is in the Reverse_Molecule list of the same key a_b.
C8_GroupingSymmetry ==
  pc = "checked" =>
    \A i \in 1..Len(bam_lst) : \A a \in Barcodes, b \in Barcodes :
      LET read == bam_lst[i]
          key  == a \o <<"_">> \o b
      IN /\ (read.query_name = Named(a, b) /\ read.is_read1 # read.is_reverse)
            => /\ key \in DOMAIN umi_dict.val
               /\ InList(umi_dict.val[key].Forward_Molecule, read)
         /\ (read.query_name = Named(b, a) /\ read.is_read1 = read.is_reverse)
            => /\ key \in DOMAIN umi_dict.val
               /\ InList(umi_dict.val[key].Reverse_Molecule, read)

C8_Witness ==
  /\ pc = "checked"
  /\ Len(bam_lst) = 2
  /\ bam_lst[1].query_name = Named(<<"a">>, <<"b">>)
  /\ bam_lst[1].is_read1 /\ ~bam_lst[1].is_reverse
  /\ bam_lst[2].query_name = Named(<<"b">>, <<"a">>)
  /\ bam_lst[2].is_read1 /\ bam_lst[2].is_reverse
  /\ umi_dict.keys = << <<"a", "_", "b">> >>
  /\ umi_dict.val[<<"a", "_", "b">>] =
       [Forward_Molecule |-> <<bam_lst[1]>>, Reverse_Molecule |-> <<bam_lst[2]>>]

\* The classification ffpe_finder gives key k on the tallies of its own reads
OwnClass(k) ==
  ffpe_finder(("Forward Hits" :> (k :> FwdTally(k))) @@
              ("Reverse Hits" :> (k :> RevTally(k))),
              n_alt_of(record), n_ref_of(record), k)

\* C9: the written record carries the FFPE filter if and only if at least
\* one paired molecule of the position is classified FFPE Hit.
C9_FilterIffFfpeGroup ==
  pc = "written" =>
    (("FFPE" \in n_cop.filter) <=>
     \E k \in KeySet(umi_dict) :
        IsPaired(k) /\ OwnClass(k)["FFPE Hits"] # <<>>)

C9_Witness ==
  /\ pc = "written"
  /\ "FFPE" \in n_cop.filter
  /\ Len(umi_dict.keys) = 2
  /\ ~IsPaired(umi_dict.keys[1])
  /\ IsPaired(umi_dict.keys[2])

\* C10: a position whose only molecule is paired with both strands showing
\* one base X once: X the reference base gives Reference Hit and
\* Paired[ref] = 2; X the alternate allele gives Mutation Hit and
\* Paired[alt] = 2.
C10_ConcordantPair ==
  pc = "counted" =>
    LET vh == ffpe_data.val[umi_dict.keys[1]]["Variant Hits"]
    IN /\ OnlyPairedGroup(OnlyBase(TheRef, 1), OnlyBase(TheRef, 1))
          => /\ Reported(vh) = {"Reference Hits"}
             /\ pos_sup["Reference"]["Paired"][TheRef] = 2
       /\ OnlyPairedGroup(OnlyBase(TheAlt, 1), OnlyBase(TheAlt, 1))
          => /\ Reported(vh) = {"Mutation Hits"}
             /\ pos_sup["Variant"]["Paired"][TheAlt] = 2

C10_Witness ==
  /\ pc = "counted"
  /\ OnlyPairedGroup(OnlyBase(TheRef, 1), OnlyBase(TheRef, 1))
  /\ pos_sup["Reference"]["Paired"][TheRef] = 2
  /\ pos_sup["Variant"]["Paired"][TheAlt] = 0

\* str.upper() on one character
upper(c) ==
  IF c = "a" THEN "A" ELSE IF c = "t" THEN "T" ELSE IF c = "g" THEN "G"
  ELSE IF c = "c" THEN "C" ELSE IF c = "n" THEN "N" ELSE c

\* The reads of bam_lst that cover the position of the record
Covering == {i \in 1..Len(bam_lst) :
               index(bam_lst[i].reference_positions, record.pos - 1) # 0}

\* The base a covering read shows at the position, as it stands in the read
ShownBase(i) ==
  bam_lst[i].query_sequence[index(bam_lst[i].reference_positions, record.pos - 1)]

\* C11: a read covering the position is counted under the upper-cased base
\* it shows there when that is A, T, G or C and under N otherwise; a read
\* not covering the position is counted under "-".
C11_BaseCall ==
  pc = "tallied" =>
    /\ \A b \in {"A", "T", "G", "C"} :
         pos_dict[b] = Cardinality({i \in Covering : upper(ShownBase(i)) = b})
    /\ pos_dict["N"] =
         Cardinality({i \in Covering : upper(ShownBase(i)) \notin {"A", "T", "G", "C"}})
    /\ pos_dict["-"] = Len(bam_lst) - Cardinality(Covering)

\* C19: the tally has exactly the six buckets A, T, G, C, N and "-", its
\* counts add up to the number of reads, and every read that does not
\* cover the position is counted under "-".
C19_TallyTotal ==
  pc = "tallied" =>
    /\ DOMAIN pos_dict = {"A", "T", "G", "C", "N", "-"}
    /\ pos_dict["A"] + pos_dict["T"] + pos_dict["G"] + pos_dict["C"] +
       pos_dict["N"] + pos_dict["-"] = Len(bam_lst)
    /\ pos_dict["-"] = Len(bam_lst) - Cardinality(Covering)

C19_Witness ==
  /\ pc = "tallied"
  /\ Len(bam_lst) = 3
  /\ Cardinality(Covering) = 1
  /\ pos_dict["-"] = 2
  /\ pos_dict["N"] = 1

\* The count of allele a summed over the reverse singletons among the
\* first n keys of the position
RECURSIVE RevSingleSum(_, _)
RevSingleSum(n, a) ==
  IF n = 0 THEN 0
  ELSE LET k == umi_dict.keys[n]
       IN RevSingleSum(n - 1, a) +
          (IF FwdReads(k) = <<>> /\ RevReads(k) # <<>> THEN RevTally(k)[a] ELSE 0)

\* C18: the Reverse Single counter of every queried allele is the sum of
\* the allele's tally count over the reverse singletons of the position,
\* each counted once; no other key adds to it.
C18_ReverseSingleSum ==
  pc = "counted" =>
    /\ pos_sup["Variant"]["Reverse Single"][TheAlt] =
         RevSingleSum(Len(umi_dict.keys), TheAlt)
    /\ pos_sup["Reference"]["Reverse Single"][TheRef] =
         RevSingleSum(Len(umi_dict.keys), TheRef)

\* The record is in the part of the loop body behind the test of its shape
Processed == pc \in {"fetched", "checked", "counted", "written", "crashed"}

\* C12: grouping, classification and aggregation run on a record only if
\* its reference allele string and every one of its alternate allele
\* strings is exactly one character long.
C12_SingleBaseOnly ==
  Processed =>
    /\ Len(record.ref) = 1
    /\ \A j \in 1..Len(record.alts) : Len(record.alts[j]) = 1

\* Record j of vcf_file has been written to n_vcf
Written(j) == \E i \in 1..Len(n_vcf) : n_vcf[i].idx = j

\* C13: when the run has ended, by the end of vcf_file or by an exception
\* on one record, every other record of a supported shape has been
\* processed and written: a failure on one record does not stop the
\* records after it.
C13_FailureIsolated ==
  pc \in {"done", "crashed"} =>
    \A j \in 1..Len(vcf_file) :
      (~skipped_shape(vcf_file[j]) /\ ~(pc = "crashed" /\ j = vcf_idx))
      => Written(j)

\* The last "_"-separated field of the identifier holds two or more
\* "+"-separated fields
WellFormed(read) ==
  LET qn_spl == split(read.query_name, "_")
  IN Len(split(qn_spl[Len(qn_spl)], "+")) >= 2

\* C14: with a malformed identifier among the reads of a position,
\* pos_checker returns what it returns for the other reads alone.
C14_MalformedReadSkipped ==
  (pc \in {"checked", "crashed"} /\ \E i \in 1..Len(bam_lst) : ~WellFormed(bam_lst[i]))
  => /\ pc = "checked"
     /\ ffpe_data = pos_checker(SelectSeq(bam_lst, WellFormed), record.pos - 1,
                                n_alt_of(record), n_ref_of(record)).pos_res

\* C20: at the end of vcf_file the output holds one record for every
\* record of the input, a record of an unsupported shape without UMI
\* annotation and without filter.
C20_SkippedPassedThrough ==
  pc = "done" =>
    /\ Len(n_vcf) = Len(vcf_file)
    /\ \A j \in 1..Len(vcf_file) :
         skipped_shape(vcf_file[j])
         => \E i \in 1..Len(n_vcf) :
               n_vcf[i] = [idx |-> j, UMI |-> <<>>, filter |-> {}]

\* C15: the UMI annotation determines the six counters it encodes: no
\* other six counts give the annotation written for pos_sup.
C15_AnnotationInjective ==
  pc = "written" =>
    \A sup \in AnnotSups :
      umi_field(sup, n_ref_of(record), n_alt_of(record)) = n_cop.UMI
      => sup = pos_sup

\* main is behind p_que.join() and the join of every consumer
Joined == m_pc \in {"write", "done"}

\* C16: when main has joined the producer and all consumers, the work
\* queue is empty and every record of the input has been passed to
\* vcf_extract exactly once.
C16_EveryRecordProcessedOnce ==
  Joined =>
    /\ thr_que = <<>>
    /\ \A i \in 1..Len(vcf_file) : n_ext[i] = 1

\* C17: n_vcf is written only by main and only after the producer and
\* every consumer have ended; every record written was put on res_que by
\* a consumer after its call of vcf_extract; and when main is done every
\* record put on res_que has been written exactly once.
C17_SingleWriterAfterJoin ==
  /\ n_vcf # <<>> =>
       /\ m_pc \in {"write", "done"}
       /\ p_pc = "end"
       /\ \A c \in Consumers : Terminated(c)
  /\ \A i \in 1..Len(n_vcf) :
       /\ InList(put_log, n_vcf[i])
       /\ n_ext[n_vcf[i].idx] >= 1
  /\ m_pc = "done" => n_vcf = put_log

C17_Witness ==
  /\ m_pc = "done"
  /\ Len(c_pc) = 2
  /\ Len(n_vcf) = 2
  /\ n_vcf[1].idx = 2
  /\ n_vcf[2].idx = 1

\* C22: every popleft a consumer executes finds the work queue non-empty:
\* no step takes a consumer from its popleft on an empty deque.
C22_NoPopOnEmpty ==
  [][\A c \in Consumers :
       (c_pc[c] = "pop" /\ c_pc'[c] # "pop") => thr_que # <<>>]_vars

\* The item is a record the producer has appended
Appended(item) == \E j \in 1..vcf_idx : item = vcf_file[j]

\* C23: every item of the work queue, and every item a consumer has
\* dequeued to pass to vcf_extract, is a record the producer appended.
C23_QueueHoldsRecordsOnly ==
  /\ \A i \in 1..Len(thr_que) : Appended(thr_que[i])
  /\ \A c \in Consumers : c_pc[c] = "extract" => Appended(c_rec[c])

\* The alleles of the record that are no bucket of the tallies
Missing == (n_ref_of(record) \cup n_alt_of(record)) \ {"A", "T", "G", "C", "N", "-"}

\* C21: for a reference base or alternate allele that is no tally bucket,
\* no exception leaves pos_checker or sup_count, every molecule of the
\* position has its entry in the result of pos_checker, the allele is in
\* no category of any classification, and every counter sup_count returns
\* for the allele is 0.
C21_LookupMissIsNoCrash ==
  /\ pc # "crashed"
  /\ pc \in {"checked", "counted", "written"} =>
       /\ ffpe_data.keys = umi_dict.keys
       /\ \A k \in KeySet(ffpe_data) : \A cat \in Categories : \A a \in Missing :
            LET vh == ffpe_data.val[k]["Variant Hits"]
            IN vh # <<>> => a \notin DOMAIN vh[cat]
  /\ pc \in {"counted", "written"} =>
       \A c \in {"Paired", "Forward Single", "Reverse Single"} :
         /\ \A a \in Missing \cap n_alt_of(record) : pos_sup["Variant"][c][a] = 0
         /\ \A a \in Missing \cap n_ref_of(record) : pos_sup["Reference"][c][a] = 0

C21_Witness ==
  /\ pc = "counted"
  /\ TheAlt = "*"
  /\ Len(umi_dict.keys) = 2
  /\ IsPaired(umi_dict.keys[1])
  /\ ~IsPaired(umi_dict.keys[2])
  /\ FwdTally(umi_dict.keys[1])["T"] = 1
  /\ Reported(ffpe_data.val[umi_dict.keys[1]]["Variant Hits"]) = {}
  /\ pos_sup["Variant"]["Paired"]["*"] = 0

====
